---- MODULE Spec2Model ----
(***************************************************************************)
(* Grant / token lifecycle of fulmine (src/fulmine/models.py).             *)
(*                                                                         *)
(* The database tables and the session backend are shared stores; every    *)
(* request-handling worker holds its own in-memory copies of the records   *)
(* it looked up.  Model.save() writes the whole in-memory copy under its   *)
(* primary key (insert or update).  Random generators (auth codes, bearer  *)
(* tokens) are nondeterministic draws from small finite sets, so a draw    *)
(* may repeat a value that is already stored.                              *)
(***************************************************************************)
EXTENDS Integers, Sequences, FiniteSets, TLC

\* ---------------------------------------------------------------- bounds
\* calls (of the workers and of the environment: clock, revocation) in a run
MaxSteps == 9

\* longest scope token given to parse_scope, in characters
MaxTokenLen == 2

\* ---------------------------------------------------------------- inputs
Workers == {"w1", "w2"}
Clients == {"c1", "c2"}
Users == {"u1"}
\* the client whose authorization requests the whole system is run with
RequestClients == {"c1"}
ScopeTokens == {"read", "write"}
Scopes == {{}, {"read"}, ScopeTokens}
\* A URI string is written as the six components urlparse splits it into;
\* its query and fragment are written as the sequence of their key=value
\* pieces, each a pair <<key, value as written in the string>>.
Uri(scheme, netloc, path, query, fragment) ==
    [scheme |-> scheme, netloc |-> netloc, path |-> path, params |-> "",
     query |-> query, fragment |-> fragment]
NoUri == Uri("", "", "", <<>>, <<>>)
Uris == {Uri("https", "app", "/cb", <<>>, <<>>),
         Uri("https", "other", "/cb", <<>>, <<>>)}
RequestUris == {Uri("https", "app", "/cb", <<>>, <<>>)}
\* redirect URIs that come with a query string: one parameter, a repeated
\* key, a percent-encoded value, parameters with an empty value, a fragment
RedirectUris ==
    {Uri("https", "app", "/cb", <<>>, <<>>),
     Uri("https", "app", "/cb", <<<<"a", "1">>>>, <<>>),
     Uri("https", "app", "/cb", <<<<"a", "1">>, <<"a", "2">>>>, <<>>),
     Uri("http", "other", "/", <<<<"b", "x%20y">>, <<"a", "1">>>>, <<>>),
     Uri("https", "app", "/cb", <<<<"a", "">>>>, <<>>),
     Uri("https", "app", "/cb", <<<<"a", "1">>, <<"b", "">>>>,
         <<<<"f", "1">>>>)}
States == {"s1"}
DeployIds == {"", "d1"}
\* what the random generators can produce, in the order of first use
AuthCodeSeq == <<"k1", "k2">>
TokenSeq == <<"t1", "t2">>
SessionKeySeq == <<"a", "b", "c">>
Range(seq) == {seq[i] : i \in DOMAIN seq}
AuthCodes == Range(AuthCodeSeq)
TokenStrings == Range(TokenSeq)
SessionKeys == Range(SessionKeySeq)
Secrets == {"x"}
ExpiresIn == {3600}
Backend == "ModelBackend"

\* timedelta(seconds=AUTH_CODE_EXPIRE_SECONDS), in ticks of the clock
AUTH_CODE_EXPIRE_SECONDS == 1

VARIABLES
    grants,     \* AuthorizationGrant table: sequence, pk = index
    codes,      \* TemporaryGrant table: auth_code -> record; the clock is
                \* kept relative to each record: its field expires holds
                \* expires - utcnow() (0 once that is not positive)
    refresh,    \* RefreshToken table: token -> record; the fields grant_of
                \* (the token it replaced) and exchanged (the scope of the
                \* access token of the code exchange it descends from) are
                \* history
    sessions,   \* session backend: session_key -> entry
    pc,         \* per worker: which object the worker currently holds
    req,        \* per worker: its AuthorizationRequest (with grant_obj)
    tmp,        \* per worker: its in-memory TemporaryGrant
    rtok,       \* per worker: its in-memory RefreshToken
    emitted,    \* history: auth_code -> emit_token calls that returned tokens
                \*          since the code was last issued
    rotated,    \* history: token -> emit_token(emit_refresh=True) calls that
                \*          minted an access token since the token was created
    areq,       \* an AuthorizationRequest as its caller builds and changes
                \* it: the fields validate() reads, and errors
    steps,      \* calls made so far
    lastOp      \* history: the last call and its outcome

vars == <<grants, codes, refresh, sessions, pc, req, tmp, rtok,
          emitted, rotated, areq, steps, lastOp>>

\* ------------------------------------------------------- in-memory blanks
\* Python's None where a string is expected
None == "None"

\* no AuthorizationRequest built yet
NoAreq == [response_type |-> None, client_id |-> None, redirect_uri |-> NoUri,
           errors |-> <<>>]

NoReq == [client_id |-> "", user |-> "", redirect_uri |-> NoUri, scope |-> {},
          state |-> "", grant_obj |-> 0]

NoTmp == [auth_code |-> "", expires |-> 0, grant |-> 0, scope |-> {},
          deploy_id |-> "", state |-> "", redirect_uri |-> NoUri,
          consumed |-> FALSE]

NoRtok == [token |-> "", deploy_id |-> "", grant |-> 0, grant_of |-> "",
           scope |-> {}, revoked |-> FALSE, exchanged |-> {}]

\* A random draw for a table keyed by the drawn string: any stored key (a
\* collision) or a key not stored yet.  The strings carry no meaning, so the
\* unused keys are interchangeable and the first of them stands for all.
Draws(seq, table) ==
    DOMAIN table \cup
        {seq[i] : i \in {j \in DOMAIN seq : j = Cardinality(DOMAIN table) + 1}}

\* ------------------------------------------------------- urllib, urlparse
\* unquote_plus / quote_plus on the values the redirect URIs are written with
unquote_plus(s) ==
    CASE s = "x%20y" -> "x y"
      [] s = "x+y" -> "x y"
      [] OTHER -> s

quote_plus(s) == IF s = "x y" THEN "x+y" ELSE s

\* parse_qs(query), keep_blank_values left at False: a dict from each key
\* that has a non-empty value to the list of its non-empty values, unquoted,
\* in the order of the string
parse_qs(query) ==
    LET filled == SelectSeq(query, LAMBDA p : p[2] # "")
        ValuesAt(k) == SelectSeq(filled, LAMBDA p : p[1] = k)
    IN [k \in {filled[i][1] : i \in DOMAIN filled} |->
           [i \in DOMAIN ValuesAt(k) |-> unquote_plus(ValuesAt(k)[i][2])]]

\* the order in which a dict is iterated (it is none the caller chose)
DictOrder == <<"a", "b", "code", "state", "access_token", "token_type",
               "expires_in", "scope">>

\* urlencode(query, doseq=True): one key=value piece per element of each
\* key's list, quoted; a key whose list is empty gives no piece.  A value
\* that is a string is written here as the list of that one string.
RECURSIVE urlencode_keys(_, _)
urlencode_keys(keys, query) ==
    IF keys = <<>> THEN <<>>
    ELSE LET k == Head(keys) IN
         [i \in DOMAIN query[k] |-> <<k, quote_plus(query[k][i])>>]
             \o urlencode_keys(Tail(keys), query)

urlencode(query) ==
    urlencode_keys(SelectSeq(DictOrder, LAMBDA k : k \in DOMAIN query), query)

\* str() of the integers of ExpiresIn
str(n) == CASE n = 3600 -> "3600" [] OTHER -> "0"

\* the request's scope as the list it is, in the order it was given
ScopeList(scope) == SelectSeq(<<"read", "write">>, LAMBDA t : t \in scope)

\* Model.save(): insert, or update of the row with the same primary key
Save(table, pk, rec) == (pk :> rec) @@ table

\* ------------------------------------------------------------ GrantStore
\* faulty variant: the table without the constraint: every insert goes through
no_unique_together(table, client_id, user) == TRUE

\* Meta.unique_together = ('client_id', 'user'): the insert of a second row
\* for the pair is refused by the database
unique_together(table, client_id, user) ==
    \A i \in DOMAIN table :
        ~(table[i].client_id = client_id /\ table[i].user = user)

\* AuthorizationGrant.objects.filter(client_id=..., user=...)
GrantsOf(client_id, user) ==
    {i \in DOMAIN grants :
        grants[i].client_id = client_id /\ grants[i].user = user}

\* faulty variant: the requested scope taken as it comes, not intersected
TokenScopeAsRequested(scope, grant_scope) ==
    IF scope # {} THEN scope ELSE grant_scope

\* lines 92-95; a stored empty scope is None (SeparatedValuesField.to_python)
TokenScope(scope, grant_scope) ==
    IF scope # {} THEN scope \cap grant_scope ELSE grant_scope

\* faulty variant: session.save() without must_create: never refused
may_overwrite(sess, session_key) == TRUE

\* session.save(must_create=True): refused when the key is already stored
must_create(sess, session_key) == session_key \notin DOMAIN sess

\* the session entry written by lines 87-99
SessionEntry(g, secret, expires_in, deploy_id, scope) ==
    [secret |-> secret,
     client_id |-> grants[g].client_id,
     deploy_id |-> deploy_id,
     user |-> grants[g].user,
     auth_backend |-> grants[g].auth_backend,
     scope |-> TokenScope(scope, grants[g].scope),
     revoked |-> FALSE,
     grant |-> g,
     expiry |-> expires_in]

\* AuthorizationGrant.new_access_token on grant g, where the random token
\* splits into (session_key, secret).  set(self.scope) on line 93 raises
\* TypeError when a non-empty scope is requested and the grant's scope is
\* None; nothing has been saved at that point.
new_access_token(g, expires_in, deploy_id, scope, session_key, secret) ==
    IF scope # {} /\ grants[g].scope = {}
    THEN [err |-> "TypeError", sessions |-> sessions]
    ELSE IF ~must_create(sessions, session_key)
    THEN [err |-> "CreateError", sessions |-> sessions]
    ELSE [err |-> "",
          sessions |-> Save(sessions, session_key,
                            SessionEntry(g, secret, expires_in, deploy_id, scope))]

\* history of a mint: what was asked, of which grant, through which caller
MintInfo(via, g, scope, session_key, r) ==
    [via |-> via, grant |-> g, requested |-> scope, key |-> session_key,
     err |-> r.err, grant_revoked |-> grants[g].revoked]

NoMint == [via |-> "", grant |-> 0, requested |-> {}, key |-> "",
           err |-> "none", grant_revoked |-> FALSE]

\* one more call, within the bound
Step ==
    /\ steps < MaxSteps
    /\ steps' = steps + 1

Idle(w) ==
    /\ pc' = [pc EXCEPT ![w] = "idle"]
    /\ req' = [req EXCEPT ![w] = NoReq]
    /\ tmp' = [tmp EXCEPT ![w] = NoTmp]
    /\ rtok' = [rtok EXCEPT ![w] = NoRtok]

\* ------------------------------------------------------------------ Init
Init ==
    /\ grants = <<>>
    /\ codes = <<>>
    /\ refresh = <<>>
    /\ sessions = <<>>
    /\ pc = [w \in Workers |-> "idle"]
    /\ req = [w \in Workers |-> NoReq]
    /\ tmp = [w \in Workers |-> NoTmp]
    /\ rtok = [w \in Workers |-> NoRtok]
    /\ emitted = [c \in AuthCodes |-> 0]
    /\ rotated = [t \in TokenStrings |-> 0]
    /\ areq = NoAreq
    /\ steps = 0
    /\ lastOp = [op |-> "init", ok |-> TRUE, mint |-> NoMint]

\* utcnow() advances by one tick: every expires that is still in the future
\* comes one tick closer, in the table and in the workers' copies
Elapse(rec) == [rec EXCEPT !.expires = IF @ > 0 THEN @ - 1 ELSE 0]

Tick ==
    /\ Step
    /\ UNCHANGED areq
    /\ \/ \E c \in DOMAIN codes : codes[c].expires > 0
       \/ \E w \in Workers : tmp[w].expires > 0
    /\ codes' = [c \in DOMAIN codes |-> Elapse(codes[c])]
    /\ tmp' = [w \in Workers |-> Elapse(tmp[w])]
    /\ lastOp' = [op |-> "tick", ok |-> TRUE, mint |-> NoMint]
    /\ UNCHANGED <<grants, refresh, sessions, pc, req, rtok, emitted, rotated>>

\* the revoked flag of a grant is set (by the site's administration; no
\* method of models.py reads it except the manager's active())
Revoke(g) ==
    /\ Step
    /\ UNCHANGED areq
    /\ g \in DOMAIN grants
    /\ ~grants[g].revoked
    /\ grants' = [grants EXCEPT ![g].revoked = TRUE]
    /\ lastOp' = [op |-> "revoke", ok |-> TRUE, mint |-> NoMint]
    /\ UNCHANGED <<codes, refresh, sessions, pc, req, tmp, rtok,
                   emitted, rotated>>

\* ---------------------------------------- AuthorizationRequest.validate
\* validate_redirect_uri: "TODO: do some solid check", returns True
validate_redirect_uri(self) == TRUE

\* faulty variant: validate() without its first line, the errors appended to
\* those of the validations before
validate_append(self) ==
    self.errors
    \o (IF self.response_type \notin {"code", "token"}
        THEN <<"invalid response_type">> ELSE <<>>)
    \o (IF self.client_id = None
        THEN <<"invalid client_id", "invalid redirect_uri">>
        ELSE IF ~validate_redirect_uri(self)
        THEN <<"invalid_redirect_uri">> ELSE <<>>)

\* validate(): self.errors afterwards
validate(self) ==
    (IF self.response_type \notin {"code", "token"}
     THEN <<"invalid response_type">> ELSE <<>>)
    \o (IF self.client_id = None
        THEN <<"invalid client_id", "invalid redirect_uri">>
        ELSE IF ~validate_redirect_uri(self)
        THEN <<"invalid_redirect_uri">> ELSE <<>>)

\* the setter of client_id (redirect_uri): assign, then validate()
set_client_id(self, value) ==
    LET assigned == [self EXCEPT !.client_id = value]
    IN [assigned EXCEPT !.errors = validate(assigned)]

set_redirect_uri(self, value) ==
    LET assigned == [self EXCEPT !.redirect_uri = value]
    IN [assigned EXCEPT !.errors = validate(assigned)]

\* everything but the request object stays as it is
RequestOnly ==
    UNCHANGED <<grants, codes, refresh, sessions, pc, req, tmp, rtok,
                emitted, rotated>>

\* AuthorizationRequest(response_type, client_id, redirect_uri, scope, state):
\* __init__ blanks the two fields and errors, sets response_type and goes
\* through both setters
new_request(response_type, client_id, redirect_uri) ==
    LET blank == [response_type |-> response_type, client_id |-> None,
                  redirect_uri |-> NoUri, errors |-> <<>>]
    IN
    /\ Step
    /\ areq' = set_redirect_uri(set_client_id(blank, client_id), redirect_uri)
    /\ lastOp' = [op |-> "AuthorizationRequest", ok |-> TRUE, mint |-> NoMint,
                  before |-> <<>>]
    /\ RequestOnly

\* request.client_id = value
assign_client_id(value) ==
    /\ Step
    /\ areq # NoAreq
    /\ areq' = set_client_id(areq, value)
    /\ lastOp' = [op |-> "client_id", ok |-> TRUE, mint |-> NoMint,
                  before |-> areq.errors]
    /\ RequestOnly

\* request.redirect_uri = value
assign_redirect_uri(value) ==
    /\ Step
    /\ areq # NoAreq
    /\ areq' = set_redirect_uri(areq, value)
    /\ lastOp' = [op |-> "redirect_uri", ok |-> TRUE, mint |-> NoMint,
                  before |-> areq.errors]
    /\ RequestOnly

\* request.response_type = value: a plain attribute, nothing is validated
assign_response_type(value) ==
    /\ Step
    /\ areq # NoAreq
    /\ areq' = [areq EXCEPT !.response_type = value]
    /\ lastOp' = [op |-> "response_type", ok |-> TRUE, mint |-> NoMint,
                  before |-> areq.errors]
    /\ RequestOnly

\* ------------------------------------------- AuthorizationRequest.grant
\* faulty variant: the hook widens the stored scope by the requested one
update_scope_union(grant_obj, scope) ==
    [grant_obj EXCEPT !.scope = @ \cup scope]

\* AuthorizationRequest.update_scope, called when the grant was not created:
\* its body is pass, the stored grant is left as it is
update_scope(grant_obj, scope) == grant_obj

\* A request object is built and grant(request) starts: get_or_create first
\* looks the pair up.
grant_get(w, client_id, user, redirect_uri, scope, state) ==
    LET found == GrantsOf(client_id, user)
        r == [client_id |-> client_id, user |-> user,
              redirect_uri |-> redirect_uri, scope |-> scope,
              state |-> state, grant_obj |-> 0]
    IN
    /\ Step
    /\ UNCHANGED areq
    /\ pc[w] # "creating"
    /\ tmp' = [tmp EXCEPT ![w] = NoTmp]
    /\ rtok' = [rtok EXCEPT ![w] = NoRtok]
    /\ IF found = {}
       THEN /\ pc' = [pc EXCEPT ![w] = "creating"]
            /\ req' = [req EXCEPT ![w] = r]
            /\ grants' = grants
            /\ lastOp' = [op |-> "get", ok |-> FALSE, mint |-> NoMint]
       ELSE IF Cardinality(found) = 1
       THEN LET g == CHOOSE i \in found : TRUE IN
            /\ pc' = [pc EXCEPT ![w] = "granted"]
            /\ req' = [req EXCEPT ![w] = [r EXCEPT !.grant_obj = g]]
            /\ grants' = [grants EXCEPT ![g] = update_scope(@, scope)]
            /\ lastOp' = [op |-> "grant", ok |-> TRUE, mint |-> NoMint,
                          created |-> FALSE, grant |-> g,
                          pair |-> <<client_id, user>>, scope |-> scope,
                          existed |-> TRUE, raced |-> FALSE]
       ELSE \* MultipleObjectsReturned
            /\ pc' = [pc EXCEPT ![w] = "idle"]
            /\ req' = [req EXCEPT ![w] = NoReq]
            /\ grants' = grants
            /\ lastOp' = [op |-> "grant", ok |-> FALSE, mint |-> NoMint]
    /\ UNCHANGED <<codes, refresh, sessions, emitted, rotated>>

\* get_or_create found nothing: it inserts the row with the defaults; when
\* the insert is refused (IntegrityError) it reads the pair's row again.
grant_create(w) ==
    LET r == req[w]
        op == [op |-> "grant", ok |-> TRUE, mint |-> NoMint,
               pair |-> <<r.client_id, r.user>>, scope |-> r.scope,
               existed |-> GrantsOf(r.client_id, r.user) # {},
               raced |-> GrantsOf(r.client_id, r.user) # {}]
    IN
    /\ Step
    /\ UNCHANGED areq
    /\ pc[w] = "creating"
    /\ IF unique_together(grants, r.client_id, r.user)
       THEN /\ grants' = Append(grants,
                     [client_id |-> r.client_id, user |-> r.user,
                      auth_backend |-> Backend, scope |-> r.scope,
                      revoked |-> FALSE])
            /\ req' = [req EXCEPT ![w].grant_obj = Len(grants) + 1]
            /\ lastOp' = op @@ [created |-> TRUE, grant |-> Len(grants) + 1]
       ELSE LET g == CHOOSE i \in GrantsOf(r.client_id, r.user) : TRUE IN
            /\ grants' = [grants EXCEPT ![g] = update_scope(@, r.scope)]
            /\ req' = [req EXCEPT ![w].grant_obj = g]
            /\ lastOp' = op @@ [created |-> FALSE, grant |-> g]
    /\ pc' = [pc EXCEPT ![w] = "granted"]
    /\ UNCHANGED <<codes, refresh, sessions, tmp, rtok, emitted, rotated>>

\* ------------------------------------ AuthorizationRequest.code_redirect
\* TemporaryGrant() draws auth_code and takes expires = utcnow() + TTL; the
\* record is saved under its auth_code.  scope and deploy_id keep their
\* empty defaults (line 283 is commented out).
code_redirect(w, auth_code) ==
    LET r == req[w]
        temp == [auth_code |-> auth_code,
                 expires |-> AUTH_CODE_EXPIRE_SECONDS,
                 grant |-> r.grant_obj, scope |-> {}, deploy_id |-> "",
                 state |-> r.state, redirect_uri |-> r.redirect_uri,
                 consumed |-> FALSE]
        o == r.redirect_uri
        parsed == parse_qs(o.query)
        query == [k \in DOMAIN parsed \cup {"code", "state"} |->
                     IF k = "code" THEN <<auth_code>>
                     ELSE IF k = "state" THEN <<r.state>>
                     ELSE parsed[k]]
        new_uri == Uri(o.scheme, o.netloc, o.path, urlencode(query), <<>>)
    IN
    /\ Step
    /\ UNCHANGED areq
    /\ pc[w] = "granted"
    /\ codes' = Save(codes, auth_code, temp)
    /\ emitted' = [emitted EXCEPT ![auth_code] = 0]
    /\ lastOp' = [op |-> "code_redirect", ok |-> TRUE, mint |-> NoMint,
                  code |-> auth_code, grant |-> r.grant_obj,
                  redirect_uri |-> r.redirect_uri, state |-> r.state,
                  uri |-> new_uri,
                  grant_revoked |-> grants[r.grant_obj].revoked,
                  taken |-> auth_code \in DOMAIN codes]
    /\ Idle(w)
    /\ UNCHANGED <<grants, refresh, sessions, rotated>>

\* --------------------------------- AuthorizationGrant.new_auth_code
\* A caller takes the unsaved TemporaryGrant of grant.new_auth_code(), fills
\* it in as code_redirect does and also sets the scope and the deploy_id the
\* code stands for, and saves it.
new_auth_code(w, auth_code, scope, deploy_id) ==
    LET r == req[w]
        temp == [auth_code |-> auth_code,
                 expires |-> AUTH_CODE_EXPIRE_SECONDS,
                 grant |-> r.grant_obj, scope |-> scope,
                 deploy_id |-> deploy_id,
                 state |-> r.state, redirect_uri |-> r.redirect_uri,
                 consumed |-> FALSE]
    IN
    /\ Step
    /\ UNCHANGED areq
    /\ pc[w] = "granted"
    /\ codes' = Save(codes, auth_code, temp)
    /\ emitted' = [emitted EXCEPT ![auth_code] = 0]
    /\ lastOp' = [op |-> "new_auth_code", ok |-> TRUE, mint |-> NoMint,
                  code |-> auth_code, grant |-> r.grant_obj,
                  taken |-> auth_code \in DOMAIN codes]
    /\ Idle(w)
    /\ UNCHANGED <<grants, refresh, sessions, rotated>>

\* ----------------------------------- AuthorizationRequest.token_redirect
\* faulty variant: the parameters appended to the query, as code_redirect does
token_in_query(o, params) ==
    Uri(o.scheme, o.netloc, o.path, o.query \o urlencode(params), <<>>)

\* lines 312-319: the parameters become the fragment, the rest is o's
token_fragment(o, params) ==
    Uri(o.scheme, o.netloc, o.path, o.query, urlencode(params))

token_redirect(w, expires_in, session_key, secret) ==
    LET g == req[w].grant_obj
        r == new_access_token(g, expires_in, "", req[w].scope, session_key, secret)
        info == MintInfo("token_redirect", g, req[w].scope, session_key, r)
        o == req[w].redirect_uri
        params == [access_token |-> <<session_key \o secret>>,
                   token_type |-> <<"bearer">>,
                   expires_in |-> <<str(expires_in)>>,
                   scope |-> ScopeList(req[w].scope),
                   state |-> <<req[w].state>>]
        new_uri == token_fragment(o, params)
    IN
    /\ Step
    /\ UNCHANGED areq
    /\ pc[w] = "granted"
    /\ sessions' = r.sessions
    /\ lastOp' = [op |-> "token_redirect", ok |-> r.err = "", mint |-> info,
                  redirect_uri |-> o, state |-> req[w].state,
                  expires_in |-> expires_in,
                  token |-> session_key \o secret,
                  uri |-> IF r.err = "" THEN new_uri ELSE NoUri]
    /\ Idle(w)
    /\ UNCHANGED <<grants, codes, refresh, emitted, rotated>>

\* ----------------------------------------------------- AuthCodeRegistry
\* faulty variant: expires__gte in place of expires__gt, which lets through
\* a record whose expires is not in the future
authorized_gte(auth_code, redirect_uri, client_id, deploy_id) ==
    {c \in DOMAIN codes :
        /\ codes[c].consumed = FALSE
        /\ codes[c].expires >= 0
        /\ codes[c].auth_code = auth_code
        /\ codes[c].redirect_uri = redirect_uri
        /\ grants[codes[c].grant].client_id = client_id
        /\ codes[c].deploy_id = deploy_id}

\* faulty variant: the filter without its deploy_id condition
authorized_any_deploy(auth_code, redirect_uri, client_id, deploy_id) ==
    {c \in DOMAIN codes :
        /\ codes[c].consumed = FALSE
        /\ codes[c].expires > 0
        /\ codes[c].auth_code = auth_code
        /\ codes[c].redirect_uri = redirect_uri
        /\ grants[codes[c].grant].client_id = client_id}

\* TemporaryGrant.objects.authorized(...): the matching rows
authorized(auth_code, redirect_uri, client_id, deploy_id) ==
    {c \in DOMAIN codes :
        /\ codes[c].consumed = FALSE
        /\ codes[c].expires > 0
        /\ codes[c].auth_code = auth_code
        /\ codes[c].redirect_uri = redirect_uri
        /\ grants[codes[c].grant].client_id = client_id
        /\ codes[c].deploy_id = deploy_id}

\* the same filter without the expiry condition (history only)
MatchesButExpiry(auth_code, redirect_uri, client_id, deploy_id) ==
    {c \in DOMAIN codes :
        /\ codes[c].consumed = FALSE
        /\ codes[c].auth_code = auth_code
        /\ codes[c].redirect_uri = redirect_uri
        /\ grants[codes[c].grant].client_id = client_id
        /\ codes[c].deploy_id = deploy_id}

\* history: what a lookup asked with, kept when it named a stored code that
\* was unconsumed and unexpired (of any other lookup the outcome does not
\* depend on it)
Asked(auth_code, redirect_uri, client_id, deploy_id) ==
    IF /\ auth_code \in DOMAIN codes
       /\ ~codes[auth_code].consumed
       /\ codes[auth_code].expires > 0
    THEN [redirect_uri |-> redirect_uri, client_id |-> client_id,
          deploy_id |-> deploy_id]
    ELSE [redirect_uri |-> NoUri, client_id |-> "", deploy_id |-> ""]

\* a worker looks a code up and keeps the record it got
lookup_code(w, auth_code, redirect_uri, client_id, deploy_id) ==
    LET found == authorized(auth_code, redirect_uri, client_id, deploy_id)
        op == [op |-> "authorized", mint |-> NoMint, w |-> w,
               code |-> auth_code,
               args |-> Asked(auth_code, redirect_uri, client_id, deploy_id),
               matched |-> MatchesButExpiry(auth_code, redirect_uri,
                                            client_id, deploy_id) # {}]
    IN
    /\ Step
    /\ UNCHANGED areq
    /\ pc[w] # "creating"
    /\ req' = [req EXCEPT ![w] = NoReq]
    /\ rtok' = [rtok EXCEPT ![w] = NoRtok]
    /\ IF found = {}
       THEN /\ pc' = [pc EXCEPT ![w] = "idle"]
            /\ tmp' = [tmp EXCEPT ![w] = NoTmp]
            /\ lastOp' = op @@ [ok |-> FALSE]
       ELSE LET c == CHOOSE c \in found : TRUE IN
            /\ pc' = [pc EXCEPT ![w] = "code"]
            /\ tmp' = [tmp EXCEPT ![w] = codes[c]]
            /\ lastOp' = op @@ [ok |-> TRUE]
    /\ UNCHANGED <<grants, codes, refresh, sessions, emitted, rotated>>

\* TemporaryGrant.emit_token on the worker's record
emit_token(w, expires_in, emit_refresh, session_key, secret, token) ==
    LET t == tmp[w]
        g == t.grant
        r == new_access_token(g, expires_in, t.deploy_id, t.scope, session_key, secret)
        info == MintInfo("code", g, t.scope, session_key, r)
        op == [op |-> "emit_token", code |-> t.auth_code,
               prior |-> emitted[t.auth_code], emit_refresh |-> emit_refresh]
        new_refresh == [token |-> token, deploy_id |-> t.deploy_id, grant |-> g,
                        grant_of |-> "", scope |-> {}, revoked |-> FALSE,
                        exchanged |-> TokenScope(t.scope, grants[g].scope)]
    IN
    /\ Step
    /\ UNCHANGED areq
    /\ pc[w] = "code"
    /\ IF t.consumed
       THEN \* raise Exception('consumed grant can't emit tokens')
            /\ lastOp' = op @@ [ok |-> FALSE, mint |-> NoMint, refresh_token |-> ""]
            /\ UNCHANGED <<codes, tmp, sessions, refresh, emitted, rotated>>
       ELSE /\ tmp' = [tmp EXCEPT ![w].consumed = TRUE]
            /\ codes' = Save(codes, t.auth_code, [t EXCEPT !.consumed = TRUE])
            /\ sessions' = r.sessions
                    /\ IF r.err # ""
               THEN \* the mint raised after the code was saved as consumed
                    /\ lastOp' = op @@ [ok |-> FALSE, mint |-> info, refresh_token |-> ""]
                    /\ UNCHANGED <<refresh, emitted, rotated>>
               ELSE /\ emitted' = [emitted EXCEPT ![t.auth_code] = @ + 1]
                    /\ IF emit_refresh
                       THEN /\ refresh' = Save(refresh, token, new_refresh)
                            /\ rotated' = [rotated EXCEPT ![token] = 0]
                            /\ lastOp' = op @@ [ok |-> TRUE, mint |-> info,
                                                refresh_token |-> token]
                       ELSE /\ lastOp' = op @@ [ok |-> TRUE, mint |-> info,
                                                refresh_token |-> ""]
                            /\ UNCHANGED <<refresh, rotated>>
    /\ UNCHANGED <<grants, pc, req, rtok>>

\* ------------------------------------------------- RefreshTokenRegistry
\* RefreshToken.objects.refreshable(...): the matching rows
refreshable(refresh_token, deploy_id) ==
    {t \in DOMAIN refresh :
        /\ refresh[t].revoked = FALSE
        /\ refresh[t].token = refresh_token
        /\ refresh[t].deploy_id = deploy_id}

lookup_refresh(w, refresh_token, deploy_id) ==
    LET found == refreshable(refresh_token, deploy_id) IN
    /\ Step
    /\ UNCHANGED areq
    /\ pc[w] # "creating"
    /\ req' = [req EXCEPT ![w] = NoReq]
    /\ tmp' = [tmp EXCEPT ![w] = NoTmp]
    /\ IF found = {}
       THEN /\ pc' = [pc EXCEPT ![w] = "idle"]
            /\ rtok' = [rtok EXCEPT ![w] = NoRtok]
            /\ lastOp' = [op |-> "refreshable", ok |-> FALSE,
                          mint |-> NoMint, token |-> refresh_token]
       ELSE LET t == CHOOSE t \in found : TRUE IN
            /\ pc' = [pc EXCEPT ![w] = "refresh"]
            /\ rtok' = [rtok EXCEPT ![w] = refresh[t]]
            /\ lastOp' = [op |-> "refreshable", ok |-> TRUE,
                          mint |-> NoMint, token |-> refresh_token]
    /\ UNCHANGED <<grants, codes, refresh, sessions, emitted, rotated>>

\* Line 190 assigns the RefreshToken itself to its replacement's
\* ForeignKey(AuthorizationGrant).  What the ORM makes of an object of the
\* wrong model is not decided by models.py: either the assignment is refused
\* (ValueError, after the old token has been saved as revoked), or the
\* reference is kept as given and saved, and then names no AuthorizationGrant.
AssignOutcomes == {"ValueError", "kept"}

\* RefreshToken.emit_token on the worker's record
refresh_emit_token(w, expires_in, emit_refresh, session_key, secret, token, assign) ==
    LET t == rtok[w]
        g == t.grant
        r == new_access_token(g, expires_in, t.deploy_id, t.scope, session_key, secret)
        info == MintInfo("refresh", g, t.scope, session_key, r)
        op == [op |-> "refresh_emit_token", old |-> t,
               prior |-> rotated[t.token], emit_refresh |-> emit_refresh]
        revoked_old == Save(refresh, t.token, [t EXCEPT !.revoked = TRUE])
        replacement == [token |-> token, deploy_id |-> t.deploy_id, grant |-> 0,
                        grant_of |-> t.token, scope |-> t.scope, revoked |-> FALSE,
                        exchanged |-> t.exchanged]
    IN
    /\ Step
    /\ UNCHANGED areq
    /\ pc[w] = "refresh"
    /\ IF t.revoked
       THEN \* raise Exception('revoked refresh token can't be used')
            /\ lastOp' = op @@ [ok |-> FALSE, err |-> "revoked", mint |-> NoMint,
                                refresh_token |-> ""]
            /\ UNCHANGED <<rtok, sessions, refresh, rotated>>
       ELSE IF g \notin DOMAIN grants
       THEN \* self.grant is no AuthorizationGrant: nothing to mint from
            /\ lastOp' = op @@ [ok |-> FALSE, err |-> "grant", mint |-> NoMint,
                                refresh_token |-> ""]
            /\ UNCHANGED <<rtok, sessions, refresh, rotated>>
       ELSE IF r.err # ""
       THEN /\ lastOp' = op @@ [ok |-> FALSE, err |-> r.err, mint |-> info,
                                refresh_token |-> ""]
            /\ UNCHANGED <<rtok, sessions, refresh, rotated>>
       ELSE /\ sessions' = r.sessions
                    /\ IF ~emit_refresh
               THEN /\ lastOp' = op @@ [ok |-> TRUE, err |-> "", mint |-> info,
                                        refresh_token |-> ""]
                    /\ UNCHANGED <<rtok, refresh, rotated>>
               ELSE /\ rtok' = [rtok EXCEPT ![w].revoked = TRUE]
                    /\ IF assign = "ValueError"
                       THEN /\ refresh' = revoked_old
                            /\ rotated' = [rotated EXCEPT ![t.token] = @ + 1]
                            /\ lastOp' = op @@ [ok |-> FALSE, err |-> "ValueError",
                                                mint |-> info, refresh_token |-> ""]
                       ELSE /\ refresh' = Save(revoked_old, token, replacement)
                            /\ rotated' = [[rotated EXCEPT ![t.token] = @ + 1]
                                              EXCEPT ![token] = 0]
                            /\ lastOp' = op @@ [ok |-> TRUE, err |-> "",
                                                mint |-> info, refresh_token |-> token]
    /\ UNCHANGED <<grants, codes, pc, req, tmp, emitted>>

\* ------------------------------------------------------------------ Next
CallerWorkers == {"w1"}

\* RefreshToken() is only built, and its token only drawn, when emit_refresh
RefreshDraws(emit_refresh) ==
    IF emit_refresh THEN Draws(TokenSeq, refresh) ELSE {""}

Next ==
    \/ Tick
    \/ \E g \in DOMAIN grants : Revoke(g)
    \/ \E w \in Workers, cl \in RequestClients, u \in Users,
          uri \in RequestUris, sc \in Scopes, st \in States :
          grant_get(w, cl, u, uri, sc, st)
    \/ \E w \in Workers : grant_create(w)
    \/ \E w \in Workers, c \in Draws(AuthCodeSeq, codes) : code_redirect(w, c)
    \/ \E w \in Workers, e \in ExpiresIn, k \in Draws(SessionKeySeq, sessions),
          x \in Secrets : token_redirect(w, e, k, x)
    \/ \E w \in Workers, c \in AuthCodes, uri \in Uris, cl \in Clients,
          d \in DeployIds : lookup_code(w, c, uri, cl, d)
    \/ \E w \in Workers, e \in ExpiresIn, b \in BOOLEAN,
          k \in Draws(SessionKeySeq, sessions), x \in Secrets :
          \E t \in RefreshDraws(b) : emit_token(w, e, b, k, x, t)
    \/ \E w \in Workers, t \in TokenStrings, d \in DeployIds :
          lookup_refresh(w, t, d)
    \/ \E w \in Workers, e \in ExpiresIn, b \in BOOLEAN,
          k \in Draws(SessionKeySeq, sessions), x \in Secrets,
          a \in AssignOutcomes :
          \E t \in RefreshDraws(b) :
              /\ ~b => a = "kept"
              /\ refresh_emit_token(w, e, b, k, x, t, a)

Spec == Init /\ [][Next]_vars

\* The grant store alone, with requests for every (client_id, user) pair
NextGrant ==
    \/ \E g \in DOMAIN grants : Revoke(g)
    \/ \E w \in Workers, cl \in Clients, u \in Users, uri \in RequestUris,
          sc \in Scopes, st \in States : grant_get(w, cl, u, uri, sc, st)
    \/ \E w \in Workers : grant_create(w)

SpecGrant == Init /\ [][NextGrant]_vars

\* ------------------------------------------------------------ parse_scope
\* Characters are their code points.  The class of scope_re, [!#-[\]-~], is
\* '!', the range '#'..'[' and the range ']'..'~'.
InClass(c) == c = 33 \/ (35 <= c /\ c <= 91) \/ (93 <= c /\ c <= 126)

\* scope_re.match(s) is not None, for ^[!#-[\]-~]+$ : one or more characters
\* of the class up to the end of the string, where $ also matches just
\* before a line feed that ends the string
scope_re_match(s) ==
    \E n \in 1..Len(s) :
        /\ \A i \in 1..n : InClass(s[i])
        /\ n = Len(s) \/ (n + 1 = Len(s) /\ s[Len(s)] = 10)

\* parse_scope(scope): raises ValidationError or returns its argument
parse_scope(scope) ==
    IF \E i \in DOMAIN scope : ~scope_re_match(scope[i])
    THEN [raised |-> "ValidationError", value |-> <<>>]
    ELSE [raised |-> "", value |-> scope]

\* the characters the tokens are made of: line feed, space, ! " A [ \ ] ~
ScopeChars == {10, 32, 33, 34, 65, 91, 92, 93, 126}

RECURSIVE TokensUpTo(_)
TokensUpTo(n) ==
    IF n = 0 THEN {<<>>}
    ELSE LET shorter == TokensUpTo(n - 1) IN
         shorter \cup {Append(t, c) : t \in shorter, c \in ScopeChars}

ScopeTokenInputs == TokensUpTo(MaxTokenLen)

\* scopes of no, one and two tokens (the second of one character at most)
ScopeInputs ==
    {<<>>} \cup {<<t>> : t \in ScopeTokenInputs}
           \cup {<<t, u>> : t \in ScopeTokenInputs, u \in TokensUpTo(1)}

\* a caller holds a scope it is about to pass to parse_scope
InitScope ==
    /\ grants = <<>>
    /\ codes = <<>>
    /\ refresh = <<>>
    /\ sessions = <<>>
    /\ pc = [w \in Workers |-> "idle"]
    /\ req = [w \in Workers |-> NoReq]
    /\ tmp = [w \in Workers |-> NoTmp]
    /\ rtok = [w \in Workers |-> NoRtok]
    /\ emitted = [c \in AuthCodes |-> 0]
    /\ rotated = [t \in TokenStrings |-> 0]
    /\ areq = NoAreq
    /\ steps = 0
    /\ \E scope \in ScopeInputs :
          lastOp = [op |-> "scope", ok |-> TRUE, mint |-> NoMint,
                    scope |-> scope]

parse_scope_call ==
    /\ Step
    /\ lastOp.op = "scope"
    /\ lastOp' = [op |-> "parse_scope", mint |-> NoMint,
                  scope |-> lastOp.scope,
                  ok |-> parse_scope(lastOp.scope).raised = "",
                  raised |-> parse_scope(lastOp.scope).raised,
                  value |-> parse_scope(lastOp.scope).value]
    /\ UNCHANGED areq
    /\ RequestOnly

NextScope == parse_scope_call

SpecScope == InitScope /\ [][NextScope]_vars

\* The request object alone: built, then its fields assigned
ResponseTypes == {"code", "token", "id_token", None}
ClientIds == Clients \cup {"", None}
RequestUriValues == Uris \cup {NoUri}

NextValidate ==
    \/ \E t \in ResponseTypes, cl \in ClientIds, uri \in RequestUriValues :
          new_request(t, cl, uri)
    \/ \E cl \in ClientIds : assign_client_id(cl)
    \/ \E uri \in RequestUriValues : assign_redirect_uri(uri)
    \/ \E t \in ResponseTypes : assign_response_type(t)

SpecValidate == Init /\ [][NextValidate]_vars

\* The two redirects of a request, on redirect URIs that have a query string
NextRedirect ==
    \/ \E w \in CallerWorkers, cl \in RequestClients, u \in Users,
          uri \in RedirectUris, sc \in Scopes, st \in States :
          grant_get(w, cl, u, uri, sc, st)
    \/ \E w \in CallerWorkers : grant_create(w)
    \/ \E w \in CallerWorkers, c \in Draws(AuthCodeSeq, codes) :
          code_redirect(w, c)
    \/ \E w \in CallerWorkers, e \in ExpiresIn,
          k \in Draws(SessionKeySeq, sessions), x \in Secrets :
          token_redirect(w, e, k, x)

SpecRedirect == Init /\ [][NextRedirect]_vars

\* One worker, with codes that carry a scope and a deploy_id: the code and
\* refresh exchanges on records whose fields a caller has filled in

NextCaller ==
    \/ \E w \in CallerWorkers, cl \in RequestClients, u \in Users,
          uri \in RequestUris, sc \in Scopes, st \in States :
          grant_get(w, cl, u, uri, sc, st)
    \/ \E w \in CallerWorkers : grant_create(w)
    \/ \E w \in CallerWorkers, c \in Draws(AuthCodeSeq, codes),
          sc \in Scopes, d \in DeployIds : new_auth_code(w, c, sc, d)
    \/ \E w \in CallerWorkers, c \in AuthCodes, uri \in RequestUris,
          cl \in RequestClients, d \in DeployIds : lookup_code(w, c, uri, cl, d)
    \/ \E w \in CallerWorkers, e \in ExpiresIn, b \in BOOLEAN,
          k \in Draws(SessionKeySeq, sessions), x \in Secrets :
          \E t \in RefreshDraws(b) : emit_token(w, e, b, k, x, t)
    \/ \E w \in CallerWorkers, t \in TokenStrings, d \in DeployIds :
          lookup_refresh(w, t, d)
    \/ \E w \in CallerWorkers, e \in ExpiresIn, b \in BOOLEAN,
          k \in Draws(SessionKeySeq, sessions), x \in Secrets,
          a \in AssignOutcomes :
          \E t \in RefreshDraws(b) :
              /\ ~b => a = "kept"
              /\ refresh_emit_token(w, e, b, k, x, t, a)

SpecCaller == Init /\ [][NextCaller]_vars

\* ================================================================ claims

\* C1: of the concurrent redemptions of one issued code, at most one obtains
\* tokens: no code has had more than one emit_token call return tokens
\* since it was issued.
C1_AtMostOneRedemption ==
    \A c \in AuthCodes : emitted[c] <= 1

\* C2: of the concurrent rotations of one refresh token, at most one mints an
\* access token; the other is refused as revoked and mints nothing.
C2_AtMostOneRotation ==
    \A t \in TokenStrings : rotated[t] <= 1

\* C3: the scope stored in every session entry is a subset of its grant's
\* scope, and the entry just minted (by token_redirect, TemporaryGrant.emit_token
\* or RefreshToken.emit_token) holds requested /\ grant scope when a scope was
\* requested and the grant's scope when none was.
C3_ScopeWithinGrant ==
    /\ \A k \in DOMAIN sessions :
          sessions[k].scope \subseteq grants[sessions[k].grant].scope
    /\ lastOp.mint.err = "" =>
          LET m == lastOp.mint IN
          sessions[m.key].scope =
              IF m.requested # {}
              THEN {x \in m.requested : x \in grants[m.grant].scope}
              ELSE grants[m.grant].scope

\* C3 witness: a token was minted whose requested scope exceeded the grant's
\* scope, so that the intersection narrowed it
C3_Witness ==
    /\ lastOp.mint.err = ""
    /\ lastOp.mint.requested # {}
    /\ ~(lastOp.mint.requested \subseteq grants[lastOp.mint.grant].scope)
    /\ sessions[lastOp.mint.key].scope # {}

\* C4: a revoked grant mints nothing further: no access token is minted from
\* a grant that was revoked when new_access_token was called, and no
\* authorization code is issued from a grant that was revoked at code_redirect.
C4_RevokedMintsNothing ==
    /\ lastOp.mint.err = "" => ~lastOp.mint.grant_revoked
    /\ (lastOp.op = "code_redirect" /\ lastOp.ok) => ~lastOp.grant_revoked

\* C5: the store holds at most one AuthorizationGrant per (client_id, user);
\* a grant() call for a pair that already has a grant (also one created by
\* another worker since this call looked) creates nothing and returns the
\* pair's grant, whatever scope it asks for.
C5_OneGrantPerPair ==
    /\ \A i, j \in DOMAIN grants :
          (grants[i].client_id = grants[j].client_id
              /\ grants[i].user = grants[j].user) => i = j
    /\ (lastOp.op = "grant" /\ lastOp.ok) =>
          /\ GrantsOf(lastOp.pair[1], lastOp.pair[2]) = {lastOp.grant}
          /\ lastOp.existed => ~lastOp.created

\* C5 witness: a call whose insert met the grant another worker had created
\* meanwhile, with a scope other than the stored one
C5_Witness ==
    /\ lastOp.op = "grant"
    /\ lastOp.ok
    /\ lastOp.raced
    /\ ~lastOp.created
    /\ lastOp.scope # grants[lastOp.grant].scope

\* C6: authorized() never returns a code whose expires is not in the future:
\* a lookup that got a record got an unexpired one, and a lookup of a stored
\* code that has expired gets nothing, so that the worker holds no record to
\* emit tokens from.
C6_ExpiredNeverReturned ==
    lastOp.op = "authorized" =>
        /\ lastOp.ok =>
              /\ pc[lastOp.w] = "code"
              /\ tmp[lastOp.w].expires > 0
        /\ (lastOp.code \in DOMAIN codes /\ codes[lastOp.code].expires = 0) =>
              /\ ~lastOp.ok
              /\ pc[lastOp.w] = "idle"
              /\ tmp[lastOp.w] = NoTmp

\* C6 witness: a lookup that matched an unconsumed code on all four
\* parameters and got nothing, because the code had expired
C6_Witness ==
    /\ lastOp.op = "authorized"
    /\ lastOp.matched
    /\ ~lastOp.ok
    /\ codes[lastOp.code].expires = 0

\* C7: once an emit_token call on a code has returned tokens, every later
\* emit_token call on that code fails.
C7_EmitsOnce ==
    (lastOp.op = "emit_token" /\ lastOp.prior >= 1) => ~lastOp.ok

\* C8: a rotation (emit_token with emit_refresh on an unrevoked RefreshToken
\* whose access token was minted) returns, the access token has the refresh
\* token's scope, the new token string differs from the old, the replacement
\* is stored with the old scope and deploy_id, and the old token is revoked
\* and no longer refreshable.
C8_Rotation ==
    (/\ lastOp.op = "refresh_emit_token"
     /\ lastOp.emit_refresh
     /\ lastOp.mint.err = "") =>
        /\ lastOp.ok
        /\ sessions[lastOp.mint.key].scope = lastOp.old.scope
        /\ lastOp.refresh_token # lastOp.old.token
        /\ lastOp.refresh_token \in DOMAIN refresh
        /\ refresh[lastOp.refresh_token].scope = lastOp.old.scope
        /\ refresh[lastOp.refresh_token].deploy_id = lastOp.old.deploy_id
        /\ refresh[lastOp.old.token].revoked
        /\ refreshable(lastOp.old.token, lastOp.old.deploy_id) = {}

\* C9: the owning-grant reference of every stored RefreshToken resolves to an
\* AuthorizationGrant.
C9_OwnerIsGrant ==
    \A t \in DOMAIN refresh : refresh[t].grant \in DOMAIN grants

\* C10: no step overwrites or removes a session entry, and a mint whose
\* session key is already stored fails and returns no token.
C10_FailIfExists ==
    [][/\ \A k \in DOMAIN sessions :
              k \in DOMAIN sessions' /\ sessions'[k] = sessions[k]
       /\ lastOp'.mint.key \in DOMAIN sessions =>
              (lastOp'.mint.err # "" /\ ~lastOp'.ok)]_vars

\* C10 witness: a mint that was refused because its session key was taken
C10_Witness ==
    /\ lastOp.mint.err = "CreateError"
    /\ lastOp.mint.key \in DOMAIN sessions
    /\ ~lastOp.ok

\* C15: a grant() call on a (client_id, user) pair that already has a grant
\* leaves every stored grant as it was (scope, auth_backend and revoked flag),
\* whatever scope the request carries, and stores no further grant.
C15_RepeatLeavesGrant ==
    [][(lastOp'.op = "grant" /\ lastOp'.ok /\ lastOp'.existed) =>
           grants' = grants]_vars

\* C15 witness: a repeat request for a stored pair was answered with the
\* pair's grant although it asked for a token the stored scope does not hold
C15_Witness ==
    /\ lastOp.op = "grant"
    /\ lastOp.ok
    /\ lastOp.existed
    /\ ~lastOp.raced
    /\ lastOp.scope \ grants[lastOp.grant].scope # {}

\* C16: authorized(auth_code, redirect_uri, client_id, deploy_id) returns a
\* record iff the code is stored, unconsumed, unexpired and equal to the
\* request on redirect_uri, on its grant's client_id and on deploy_id; the
\* record it returns is the stored one.
C16_ExactMatch ==
    lastOp.op = "authorized" =>
        LET c == lastOp.code
            a == lastOp.args
        IN
        /\ lastOp.ok <=>
              /\ c \in DOMAIN codes
              /\ ~codes[c].consumed
              /\ codes[c].expires > 0
              /\ codes[c].redirect_uri = a.redirect_uri
              /\ grants[codes[c].grant].client_id = a.client_id
              /\ codes[c].deploy_id = a.deploy_id
        /\ lastOp.ok => tmp[lastOp.w] = codes[c]

\* C16 witness: a lookup of a stored, unconsumed, unexpired code, equal on
\* redirect_uri and client_id, that asked with a deploy_id other than the
\* empty one code_redirect left in the record, and got nothing
C16_Witness ==
    /\ lastOp.op = "authorized"
    /\ ~lastOp.ok
    /\ lastOp.code \in DOMAIN codes
    /\ ~codes[lastOp.code].consumed
    /\ codes[lastOp.code].expires > 0
    /\ codes[lastOp.code].redirect_uri = lastOp.args.redirect_uri
    /\ grants[codes[lastOp.code].grant].client_id = lastOp.args.client_id
    /\ codes[lastOp.code].deploy_id = ""
    /\ lastOp.args.deploy_id # ""

\* C17: the consumed flag of a stored code never returns to false, and the
\* issuance of a code by code_redirect never writes over a stored record:
\* every step keeps each consumed record consumed, and a code_redirect call
\* stores its record under an auth_code that was not stored.
C17_ConsumedMonotonic ==
    [][/\ \A c \in DOMAIN codes :
              codes[c].consumed => (c \in DOMAIN codes' /\ codes'[c].consumed)
       /\ lastOp'.op = "code_redirect" => ~lastOp'.taken]_vars

\* C18: rotation is atomic: in every state a stored RefreshToken is revoked
\* iff a RefreshToken that replaces it is stored.
C18_RotationAtomic ==
    \A t \in DOMAIN refresh :
        refresh[t].revoked <=>
            \E u \in DOMAIN refresh : refresh[u].grant_of = t

\* C19: the code is consumed after the emission: every stored code whose
\* consumed flag is true has had an access token minted for it, so an
\* emit_token call whose mint failed leaves the code unconsumed.
C19_ConsumedAfterEmission ==
    /\ \A c \in DOMAIN codes : codes[c].consumed => emitted[c] >= 1
    /\ (lastOp.op = "emit_token" /\ lastOp.mint.err \notin {"", "none"}) =>
          ~codes[lastOp.code].consumed

\* C20: no scope escalation through refresh: the refresh token created at a
\* code exchange carries the exchanged code's scope and deploy_id, and every
\* access token minted through a refresh token has a scope within the scope of
\* the access token issued at the code exchange the refresh token descends
\* from.
C20_NoEscalation ==
    /\ (lastOp.op = "emit_token" /\ lastOp.ok /\ lastOp.emit_refresh) =>
          /\ refresh[lastOp.refresh_token].scope = codes[lastOp.code].scope
          /\ refresh[lastOp.refresh_token].deploy_id = codes[lastOp.code].deploy_id
    /\ (lastOp.op = "refresh_emit_token" /\ lastOp.mint.err = "") =>
          sessions[lastOp.mint.key].scope \subseteq lastOp.old.exchanged

\* the keys of a query or fragment, and the values a key has in it (every
\* piece of the key, the empty ones too), unquoted, in the order of the string
KeysOf(pieces) == {pieces[i][1] : i \in DOMAIN pieces}

ValuesOf(pieces, k) ==
    LET at == SelectSeq(pieces, LAMBDA p : p[1] = k)
    IN [i \in DOMAIN at |-> unquote_plus(at[i][2])]

\* C11: code_redirect stores exactly one new TemporaryGrant, owned by the
\* request's grant and carrying the request's redirect_uri and state, and
\* returns a URI with the scheme, host and path of redirect_uri whose query
\* holds every parameter the query of redirect_uri had, with its values
\* unchanged, and code = the record's auth_code and state = the request's
\* state.
C11_CodeRedirect ==
    lastOp.op = "code_redirect" =>
        LET c == lastOp.code
            o == lastOp.redirect_uri
            u == lastOp.uri
        IN
        /\ ~lastOp.taken
        /\ c \in DOMAIN codes
        /\ codes[c].grant = lastOp.grant
        /\ codes[c].redirect_uri = o
        /\ codes[c].state = lastOp.state
        /\ u.scheme = o.scheme
        /\ u.netloc = o.netloc
        /\ u.path = o.path
        /\ \A k \in KeysOf(o.query) \ {"code", "state"} :
              ValuesOf(u.query, k) = ValuesOf(o.query, k)
        /\ ValuesOf(u.query, "code") = <<c>>
        /\ ValuesOf(u.query, "state") = <<lastOp.state>>

\* what every token_redirect call leaves alone, and what a call that returns
\* has done, but for the keys of the fragment: no TemporaryGrant and no
\* RefreshToken is stored or changed; exactly one session entry is new, made
\* from the request's grant; the URI returned has the scheme, host, path and
\* query of redirect_uri, the token in no query parameter, and in its fragment
\* access_token, token_type = bearer, expires_in and state once each.
TokenRedirectFrame ==
    /\ codes' = codes
    /\ refresh' = refresh
    /\ lastOp'.ok =>
          LET o == lastOp'.redirect_uri
              u == lastOp'.uri
              k == lastOp'.mint.key
          IN
          /\ DOMAIN sessions' \ DOMAIN sessions = {k}
          /\ \A j \in DOMAIN sessions : sessions'[j] = sessions[j]
          /\ sessions'[k].grant = lastOp'.mint.grant
          /\ u.scheme = o.scheme
          /\ u.netloc = o.netloc
          /\ u.path = o.path
          /\ u.query = o.query
          /\ \A i \in DOMAIN u.query : u.query[i][2] # lastOp'.token
          /\ ValuesOf(u.fragment, "access_token") = <<lastOp'.token>>
          /\ ValuesOf(u.fragment, "token_type") = <<"bearer">>
          /\ ValuesOf(u.fragment, "expires_in") = <<str(lastOp'.expires_in)>>
          /\ ValuesOf(u.fragment, "state") = <<lastOp'.state>>

C13_ErrorsAreCurrent ==
    lastOp.op \in {"AuthorizationRequest", "client_id", "redirect_uri"} =>
        LET e == {areq.errors[i] : i \in DOMAIN areq.errors}
            uri_errors == {"invalid redirect_uri", "invalid_redirect_uri"}
        IN
        /\ Cardinality(e) = Len(areq.errors)
        /\ e \subseteq {"invalid response_type", "invalid client_id"}
                            \cup uri_errors
        /\ "invalid response_type" \in e <=>
              areq.response_type \notin {"code", "token"}
        /\ "invalid client_id" \in e <=> areq.client_id = None
        /\ areq.client_id = None => e \cap uri_errors # {}
        /\ areq.client_id # None =>
              (e \cap uri_errors # {} <=> ~validate_redirect_uri(areq))

\* C13 witness: an assignment of client_id to a request that had all three
\* errors, after which only the response_type error is left
C13_Witness ==
    /\ lastOp.op = "client_id"
    /\ Len(lastOp.before) = 3
    /\ areq.errors = <<"invalid response_type">>

\* C14: parse_scope accepts a scope iff every one of its tokens is a non-empty
\* string of visible ASCII characters ('!' to '~') none of which is a
\* backslash, '[' or ']'; any other scope is rejected with a ValidationError,
\* and an accepted scope is returned unchanged.
C14_ScopeTokens ==
    lastOp.op = "parse_scope" =>
        LET scope == lastOp.scope
            Visible(c) == 33 <= c /\ c <= 126
            Allowed(c) == Visible(c) /\ c \notin {92, 91, 93}
            Valid(t) == Len(t) >= 1 /\ \A i \in DOMAIN t : Allowed(t[i])
        IN
        /\ lastOp.ok <=> \A i \in DOMAIN scope : Valid(scope[i])
        /\ lastOp.ok => lastOp.value = scope
        /\ ~lastOp.ok => lastOp.raised = "ValidationError"

====
